---- MODULE Spec2Model ----
(***************************************************************************)
(* Radio telemetry link: the transmitter (TX.py) samples the WiFi RSSI on  *)
(* a button press, writes the batch to RSSI_Medicion.txt and sends one     *)
(* 8-byte frame per line of that file; the receiver (RX.py) drains the     *)
(* radio's receive queue, unpacks each 8-byte frame and shows its RSSI on  *)
(* the OLED.                                                               *)
(***************************************************************************)
EXTENDS Integers, Sequences, FiniteSets, TLC

VARIABLES
    txpc,         \* TX.py: position of the transmitter's main()
    boton,        \* TX.py: level of the trigger pin (0 = pressed, pull-up)
    rssi_values,  \* TX.py medir_rssi: the readings of the running batch
    draws,        \* what the WiFi gave at each draw: <<>> (not connected) or <<rssi>>
    file,         \* RSSI_Medicion.txt: a sequence of lines (sequences of characters)
    wi,           \* medir_rssi: index of the next reading to write to the file
    txpos,        \* transmitir_archivo: index of the next line of the file
    sent,         \* payloads nrf.send accepted in the running/last pass
    passResult,   \* "none" | "running" | "ok" (file sent) | "error" (pass aborted)
    warned,       \* line indexes reported as "Linea malformada" in the pass
    triggers,     \* number of button presses main() has acted on
    prevLog,      \* content of the file when the previous pass ended
    stats,        \* medir_rssi: the statistics printed last, as exact fractions
    elapsed,      \* ms main() has slept since the last pass ended (at most COOLDOWN_MS)
    pressPasses,  \* passes started by the present continuous press of the button
    txRadio,      \* TX.py setup_nrf24l01(): "unset" | "ready" | "failed" (it raised)
    txFatal,      \* TX.py main() printed "Error al configurar NRF24L01"
    rxfifo,       \* payloads pending in the receiver's radio
    rxpc,         \* RX.py: position of the receiver's main()/receiver_loop()
    led,          \* RX.py: activity LED (0 off, 1 on)
    oled,         \* RX.py: <<>> before the first draw, else <<rssi>> shown
    shown,        \* every value handed to mostrar_en_oled that was drawn, in order
    buf,          \* RX.py: the buffer of the last nrf.recv()
    lastOutcome,  \* what the loop did with buf: "none" | "shown" | "size" | "decode_err"
    unpacked,     \* set of buffers struct.unpack was invoked on
    arrived,      \* number of payloads that reached the receiver's radio
    burstK,       \* payloads pending when the outer nrf.any() started the burst
    burstArr,     \* payloads that arrived after that check, during the burst
    burstRecv,    \* payloads nrf.recv() returned in the burst
    rxErrs,       \* number of "Error de decodificacion" lines the receiver printed
    rxRadio,      \* RX.py setup_nrf24l01(): "unset" | "ready" | "failed" (it raised)
    rxFatal,      \* RX.py main() printed "Error al configurar NRF24L01"
    listening,    \* RX.py: nrf.start_listening() was called
    received      \* number of payloads nrf.recv() has returned

txvars == <<txpc, boton, rssi_values, draws, file, wi, txpos, sent, passResult, warned,
            triggers, prevLog, txRadio, txFatal, elapsed, pressPasses, stats>>
rxvars == <<rxpc, led, oled, shown, buf, lastOutcome, unpacked, burstK,
            burstArr, burstRecv, rxErrs, rxRadio, rxFatal, listening, received>>
vars == <<txvars, rxvars, rxfifo, arrived>>

(***************************************************************************)
(* Bounds of the model.                                                    *)
(***************************************************************************)
\* draws of one sampling step; TX.py draws range(10)
NumSamples == 2
\* button presses the transmitter acts on
MaxTriggers == 2
\* lines of a file handed to transmitir_archivo on its own
MaxLines == 3
\* payloads that reach the receiver's radio
MaxArrivals == 3
\* lines of the file sent to a running receiver
MaxLinkLines == 2

\* value medir_rssi stores when wifi.isconnected() is false
SENTINEL == -100
\* ms of the time.sleep(2) that follows a pass
COOLDOWN_MS == 2000
\* length the receiver requires of a buffer
FRAME_LEN == 8

\* readings wifi.status('rssi') returns in the model
Readings == {-50, -55}

(***************************************************************************)
(* Text: str(int), str.strip, str.split(","), int(str).                    *)
(***************************************************************************)
DigitChars == <<"0", "1", "2", "3", "4", "5", "6", "7", "8", "9">>
Whitespace == {" ", "\n"}

\* ---- exact fractions <<numerator, denominator>>, denominator > 0, in lowest
\* terms: the values of Python's float arithmetic in medir_rssi, without rounding
Abs(x) == IF x < 0 THEN 0 - x ELSE x

RECURSIVE GCD(_, _)
GCD(a, b) == IF b = 0 THEN a ELSE GCD(b, a % b)

RNorm(num, den) ==
    LET g == GCD(Abs(num), den)
    IN  <<num \div g, den \div g>>

\* sum(xs) of integers
RECURSIVE sum(_)
sum(xs) == IF xs = <<>> THEN 0 ELSE xs[1] + sum(Tail(xs))

\* avg_rssi = sum(rssi_values) / len(rssi_values)
avg_rssi(xs) == RNorm(sum(xs), Len(xs))

\* sum([(x - avg_rssi) ** 2 for x in xs]) with avg_rssi = S / n, times n * n:
\* each term (x - S/n) ** 2 is (n*x - S) ** 2 over n * n
RECURSIVE SumSqDev(_, _, _)
SumSqDev(xs, S, n) ==
    IF xs = <<>> THEN 0
    ELSE (n * xs[1] - S) * (n * xs[1] - S) + SumSqDev(Tail(xs), S, n)

\* mutant of var_rssi: the divisor is len(rssi_values) - 1
var_rssi_sample(xs) ==
    RNorm(SumSqDev(xs, sum(xs), Len(xs)), Len(xs) * Len(xs) * (Len(xs) - 1))

\* the argument of math.sqrt in std_dev_rssi:
\* sum([(x - avg_rssi) ** 2 for x in rssi_values]) / len(rssi_values)
var_rssi(xs) ==
    RNorm(SumSqDev(xs, sum(xs), Len(xs)), Len(xs) * Len(xs) * Len(xs))

\* no statistics printed yet
NoStats == [n |-> 0, avg |-> <<0, 1>>, var |-> <<0, 1>>]

RECURSIVE NatToChars(_)
NatToChars(n) ==
    IF n < 10 THEN <<DigitChars[n + 1]>>
    ELSE NatToChars(n \div 10) \o <<DigitChars[(n % 10) + 1]>>

\* the text an f-string gives for an int
IntToChars(v) == IF v < 0 THEN <<"-">> \o NatToChars(-v) ELSE NatToChars(v)

RECURSIVE LStrip(_)
LStrip(s) ==
    IF s # <<>> /\ Head(s) \in Whitespace THEN LStrip(Tail(s)) ELSE s

RECURSIVE RStrip(_)
RStrip(s) ==
    IF s # <<>> /\ s[Len(s)] \in Whitespace
    THEN RStrip(SubSeq(s, 1, Len(s) - 1)) ELSE s

Strip(s) == RStrip(LStrip(s))

\* s.split(","): the fields between the commas; always at least one field
RECURSIVE SplitFrom(_, _, _)
SplitFrom(s, k, cur) ==
    IF k > Len(s) THEN <<cur>>
    ELSE IF s[k] = "," THEN <<cur>> \o SplitFrom(s, k + 1, <<>>)
    ELSE SplitFrom(s, k + 1, Append(cur, s[k]))

Split(s) == SplitFrom(s, 1, <<>>)

DigitValue(c) == CHOOSE d \in 0..9 : DigitChars[d + 1] = c
IsDigit(c) == \E d \in 1..10 : DigitChars[d] = c

RECURSIVE DigitsValue(_)
DigitsValue(s) ==
    IF s = <<>> THEN 0
    ELSE 10 * DigitsValue(SubSeq(s, 1, Len(s) - 1)) + DigitValue(s[Len(s)])

\* int(s): surrounding whitespace, an optional sign, then one or more digits;
\* anything else raises ValueError (ok = FALSE)
ParseInt(s) ==
    LET t == Strip(s)
        signed == t # <<>> /\ Head(t) \in {"-", "+"}
        digits == IF signed THEN Tail(t) ELSE t
        good == digits # <<>> /\ \A k \in 1..Len(digits) : IsDigit(digits[k])
    IN  IF ~good THEN [ok |-> FALSE, val |-> 0]
        ELSE [ok |-> TRUE,
              val |-> IF signed /\ Head(t) = "-" THEN -DigitsValue(digits)
                      ELSE DigitsValue(digits)]

(***************************************************************************)
(* Frames: struct.pack("ii", a, b) and struct.unpack("ii", buf).           *)
(***************************************************************************)
\* mutant of IntBytes: the bytes are laid out most significant first
IntBytesBigEndian(x) ==
    LET u == IF x < 0 THEN x + 2147483647 + 1 ELSE x
        top == IF x < 0 THEN 128 ELSE 0
    IN  <<((u \div 16777216) % 128) + top, (u \div 65536) % 256,
          (u \div 256) % 256, u % 256>>

\* the four bytes of a signed 32-bit integer, least significant first
IntBytes(x) ==
    LET u == IF x < 0 THEN x + 2147483647 + 1 ELSE x
        top == IF x < 0 THEN 128 ELSE 0
    IN  <<u % 256, (u \div 256) % 256, (u \div 65536) % 256,
          ((u \div 16777216) % 128) + top>>

BytesInt(b) ==
    LET u == b[1] + 256 * b[2] + 65536 * b[3] + 16777216 * (b[4] % 128)
    IN  IF b[4] >= 128 THEN u - 2147483647 - 1 ELSE u

Pack(idx, rssi) == IntBytes(idx) \o IntBytes(rssi)

\* mutant of Unpack: the two fields are taken in the other order
UnpackSwapped(b) == <<BytesInt(SubSeq(b, 5, 8)), BytesInt(SubSeq(b, 1, 4))>>

Unpack(b) == <<BytesInt(SubSeq(b, 1, 4)), BytesInt(SubSeq(b, 5, 8))>>

(***************************************************************************)
(* Transmitter, TX.py.                                                     *)
(***************************************************************************)
\* the line medir_rssi writes for reading number i (0-based)
FormatLine(i, val) == IntToChars(i) \o <<",">> \o IntToChars(val) \o <<"\n">>

\* what the body of transmitir_archivo's for loop does with one line:
\* "skip" (not two fields), "valueerror" (int() raised) or "frame" (payload)
ParseLine(line) ==
    LET partes == Split(Strip(line))
    IN  IF Len(partes) # 2 THEN [kind |-> "skip", payload |-> <<>>]
        ELSE LET idx == ParseInt(partes[1])
                 rssi == ParseInt(partes[2])
             IN  IF idx.ok /\ rssi.ok
                 THEN [kind |-> "frame", payload |-> Pack(idx.val, rssi.val)]
                 ELSE [kind |-> "valueerror", payload |-> <<>>]

\* a payload reaches the receiver's radio
Arrive(b) ==
    /\ rxfifo' = Append(rxfifo, b)
    /\ arrived' = arrived + 1
    /\ burstArr' = IF rxpc \in {"drain", "ledoff"} THEN burstArr + 1 ELSE burstArr

\* mutant of TxSetup: main() goes on to its loop after a failed setup
TxSetupGoesOn(ok) ==
    /\ txpc = "setup"
    /\ txpc' = "loop"
    /\ txRadio' = IF ok THEN "ready" ELSE "failed"
    /\ txFatal' = ~ok
    /\ UNCHANGED <<boton, rssi_values, file, wi, txpos, sent, passResult, warned,
                   triggers, prevLog, rxvars, rxfifo, arrived>>
    /\ UNCHANGED draws
    /\ UNCHANGED <<elapsed, pressPasses>>
    /\ UNCHANGED stats

\* main(): setup_nrf24l01() returns, or raises and main returns
TxSetup(ok) ==
    /\ txpc = "setup"
    /\ txpc' = IF ok THEN "loop" ELSE "exit"
    /\ txRadio' = IF ok THEN "ready" ELSE "failed"
    /\ txFatal' = ~ok
    /\ UNCHANGED <<boton, rssi_values, file, wi, txpos, sent, passResult, warned,
                   triggers, prevLog, rxvars, rxfifo, arrived>>
    /\ UNCHANGED draws
    /\ UNCHANGED <<elapsed, pressPasses>>
    /\ UNCHANGED stats

\* the user presses or releases the button
ButtonFlip ==
    /\ txpc # "off"
    /\ boton' = 1 - boton
    /\ pressPasses' = 0
    /\ UNCHANGED elapsed
    /\ UNCHANGED <<txpc, rssi_values, file, wi, txpos, sent, passResult, warned,
                   triggers, prevLog, rxvars, rxfifo, arrived>>
    /\ UNCHANGED <<txRadio, txFatal>>
    /\ UNCHANGED draws
    /\ UNCHANGED stats

\* main(): one turn of while True; a pressed button starts medir_rssi()
TxLoop ==
    /\ txpc = "loop"
    /\ boton = 0 => triggers < MaxTriggers
    /\ IF boton = 0
       THEN /\ txpc' = "medir"
            /\ rssi_values' = <<>>
            /\ draws' = <<>>
            /\ triggers' = triggers + 1
            /\ pressPasses' = pressPasses + 1
       ELSE UNCHANGED <<txpc, rssi_values, draws, triggers, pressPasses>>
    /\ UNCHANGED <<boton, file, wi, txpos, sent, passResult, warned, prevLog,
                   rxvars, rxfifo, arrived>>
    /\ UNCHANGED <<txRadio, txFatal>>
    /\ UNCHANGED elapsed
    /\ UNCHANGED stats

\* mutant of TxSample: no value is substituted when the WiFi is not connected
TxSampleNoSentinel(connected, reading) ==
    /\ txpc = "medir"
    /\ Len(rssi_values) < NumSamples
    /\ rssi_values' = Append(rssi_values, IF connected THEN reading ELSE 0)
    /\ draws' = Append(draws, IF connected THEN <<reading>> ELSE <<>>)
    /\ UNCHANGED <<txpc, boton, file, wi, txpos, sent, passResult, warned,
                   triggers, prevLog, rxvars, rxfifo, arrived>>
    /\ UNCHANGED <<txRadio, txFatal>>
    /\ UNCHANGED <<elapsed, pressPasses>>
    /\ UNCHANGED stats

\* medir_rssi(): one draw of the for loop
TxSample(connected, reading) ==
    /\ txpc = "medir"
    /\ Len(rssi_values) < NumSamples
    /\ rssi_values' = Append(rssi_values, IF connected THEN reading ELSE SENTINEL)
    /\ draws' = Append(draws, IF connected THEN <<reading>> ELSE <<>>)
    /\ UNCHANGED <<txpc, boton, file, wi, txpos, sent, passResult, warned,
                   triggers, prevLog, rxvars, rxfifo, arrived>>
    /\ UNCHANGED <<txRadio, txFatal>>
    /\ UNCHANGED <<elapsed, pressPasses>>
    /\ UNCHANGED stats

\* medir_rssi(): the statistics are printed after the last draw
TxStats ==
    /\ txpc = "medir"
    /\ Len(rssi_values) = NumSamples
    /\ txpc' = "open"
    /\ stats' = [n |-> Len(rssi_values), avg |-> avg_rssi(rssi_values),
                 var |-> var_rssi(rssi_values)]
    /\ UNCHANGED <<boton, rssi_values, file, wi, txpos, sent, passResult, warned,
                   triggers, prevLog, rxvars, rxfifo, arrived>>
    /\ UNCHANGED <<txRadio, txFatal>>
    /\ UNCHANGED draws
    /\ UNCHANGED <<elapsed, pressPasses>>

\* mutant of TxOpenLog: the file is opened in append mode
TxOpenLogAppend ==
    /\ txpc = "open"
    /\ wi' = 1
    /\ txpc' = "write"
    /\ UNCHANGED <<boton, rssi_values, file, txpos, sent, passResult, warned,
                   triggers, prevLog, rxvars, rxfifo, arrived>>
    /\ UNCHANGED <<txRadio, txFatal>>
    /\ UNCHANGED draws
    /\ UNCHANGED <<elapsed, pressPasses>>
    /\ UNCHANGED stats

\* medir_rssi(): open("RSSI_Medicion.txt", "w") empties the file
TxOpenLog ==
    /\ txpc = "open"
    /\ file' = <<>>
    /\ wi' = 1
    /\ txpc' = "write"
    /\ UNCHANGED <<boton, rssi_values, txpos, sent, passResult, warned, triggers,
                   prevLog, rxvars, rxfifo, arrived>>
    /\ UNCHANGED <<txRadio, txFatal>>
    /\ UNCHANGED draws
    /\ UNCHANGED <<elapsed, pressPasses>>
    /\ UNCHANGED stats

\* mutant of TxWriteLog: the new record is put in front of the existing ones
TxWriteLogFront ==
    /\ txpc = "write"
    /\ wi <= Len(rssi_values)
    /\ file' = <<FormatLine(wi - 1, rssi_values[wi])>> \o file
    /\ wi' = wi + 1
    /\ UNCHANGED <<txpc, boton, rssi_values, txpos, sent, passResult, warned,
                   triggers, prevLog, rxvars, rxfifo, arrived>>
    /\ UNCHANGED <<txRadio, txFatal>>
    /\ UNCHANGED draws
    /\ UNCHANGED <<elapsed, pressPasses>>
    /\ UNCHANGED stats

\* medir_rssi(): log.write of one reading
TxWriteLog ==
    /\ txpc = "write"
    /\ wi <= Len(rssi_values)
    /\ file' = Append(file, FormatLine(wi - 1, rssi_values[wi]))
    /\ wi' = wi + 1
    /\ UNCHANGED <<txpc, boton, rssi_values, txpos, sent, passResult, warned,
                   triggers, prevLog, rxvars, rxfifo, arrived>>
    /\ UNCHANGED <<txRadio, txFatal>>
    /\ UNCHANGED draws
    /\ UNCHANGED <<elapsed, pressPasses>>
    /\ UNCHANGED stats

\* mutant of TxStartPass: the pass starts while records are still to be written
TxStartPassEarly ==
    /\ txpc = "write"
    /\ txpc' = "tx"
    /\ txpos' = 1
    /\ sent' = <<>>
    /\ passResult' = "running"
    /\ warned' = {}
    /\ UNCHANGED <<boton, rssi_values, file, wi, triggers, prevLog, rxvars,
                   rxfifo, arrived>>
    /\ UNCHANGED <<txRadio, txFatal>>
    /\ UNCHANGED draws
    /\ UNCHANGED <<elapsed, pressPasses>>
    /\ UNCHANGED stats

\* medir_rssi() returns and main() calls transmitir_archivo(), which opens the file
TxStartPass ==
    /\ txpc = "write"
    /\ wi > Len(rssi_values)
    /\ txpc' = "tx"
    /\ txpos' = 1
    /\ sent' = <<>>
    /\ passResult' = "running"
    /\ warned' = {}
    /\ UNCHANGED <<boton, rssi_values, file, wi, triggers, prevLog, rxvars,
                   rxfifo, arrived>>
    /\ UNCHANGED <<txRadio, txFatal>>
    /\ UNCHANGED draws
    /\ UNCHANGED <<elapsed, pressPasses>>
    /\ UNCHANGED stats

\* mutant of TxLine: a line int() rejects ends the pass like a failed send
TxLineAbortOnBadLine(sendOk, link) ==
    /\ txpc = "tx"
    /\ txpos <= Len(file)
    /\ LET p == ParseLine(file[txpos])
       IN  CASE p.kind = "skip" ->
                  /\ txpos' = txpos + 1
                  /\ UNCHANGED elapsed
                  /\ UNCHANGED <<txpc, sent, passResult, warned, prevLog, rxfifo,
                                 arrived, burstArr>>
             [] p.kind = "valueerror" ->
                  /\ passResult' = "error"
                  /\ txpc' = "cooldown"
                  /\ prevLog' = file
                  /\ elapsed' = 0
                  /\ UNCHANGED <<txpos, sent, warned, rxfifo, arrived, burstArr>>
             [] p.kind = "frame" /\ sendOk ->
                  /\ txpos' = txpos + 1
                  /\ sent' = Append(sent, p.payload)
                  /\ IF link THEN Arrive(p.payload)
                     ELSE UNCHANGED <<rxfifo, arrived, burstArr>>
                  /\ UNCHANGED elapsed
                  /\ UNCHANGED <<txpc, passResult, warned, prevLog>>
             [] p.kind = "frame" /\ ~sendOk ->
                  /\ passResult' = "error"
                  /\ txpc' = "cooldown"
                  /\ prevLog' = file
                  /\ elapsed' = 0
                  /\ UNCHANGED <<txpos, sent, warned, rxfifo, arrived, burstArr>>
    /\ UNCHANGED <<boton, rssi_values, file, wi, triggers, rxpc, led, oled, shown,
                   buf, lastOutcome, unpacked, burstK, burstRecv>>
    /\ UNCHANGED <<rxErrs, rxRadio, rxFatal, listening, received>>
    /\ UNCHANGED <<txRadio, txFatal>>
    /\ UNCHANGED draws
    /\ UNCHANGED pressPasses
    /\ UNCHANGED stats

\* mutant of TxLine: a line without two fields ends the loop
TxLineBreakOnSkip(sendOk, link) ==
    /\ txpc = "tx"
    /\ txpos <= Len(file)
    /\ LET p == ParseLine(file[txpos])
       IN  CASE p.kind = "skip" ->
                  /\ txpos' = Len(file) + 1
                  /\ UNCHANGED elapsed
                  /\ UNCHANGED <<txpc, sent, passResult, warned, prevLog, rxfifo,
                                 arrived, burstArr>>
             [] p.kind = "valueerror" ->
                  /\ txpos' = txpos + 1
                  /\ warned' = warned \cup {txpos}
                  /\ UNCHANGED elapsed
                  /\ UNCHANGED <<txpc, sent, passResult, prevLog, rxfifo, arrived,
                                 burstArr>>
             [] p.kind = "frame" /\ sendOk ->
                  /\ txpos' = txpos + 1
                  /\ sent' = Append(sent, p.payload)
                  /\ IF link THEN Arrive(p.payload)
                     ELSE UNCHANGED <<rxfifo, arrived, burstArr>>
                  /\ UNCHANGED elapsed
                  /\ UNCHANGED <<txpc, passResult, warned, prevLog>>
             [] p.kind = "frame" /\ ~sendOk ->
                  /\ passResult' = "error"
                  /\ txpc' = "cooldown"
                  /\ prevLog' = file
                  /\ elapsed' = 0
                  /\ UNCHANGED <<txpos, sent, warned, rxfifo, arrived, burstArr>>
    /\ UNCHANGED <<boton, rssi_values, file, wi, triggers, rxpc, led, oled, shown,
                   buf, lastOutcome, unpacked, burstK, burstRecv>>
    /\ UNCHANGED <<rxErrs, rxRadio, rxFatal, listening, received>>
    /\ UNCHANGED <<txRadio, txFatal>>
    /\ UNCHANGED draws
    /\ UNCHANGED pressPasses
    /\ UNCHANGED stats

\* transmitir_archivo(): the loop body on one line. sendOk: nrf.send returns
\* (FALSE: it raises); link: the payload reaches the receiver's radio
TxLine(sendOk, link) ==
    /\ txpc = "tx"
    /\ txpos <= Len(file)
    /\ LET p == ParseLine(file[txpos])
       IN  CASE p.kind = "skip" ->
                  /\ txpos' = txpos + 1
                  /\ UNCHANGED elapsed
                  /\ UNCHANGED <<txpc, sent, passResult, warned, prevLog, rxfifo,
                                 arrived, burstArr>>
             [] p.kind = "valueerror" ->
                  /\ txpos' = txpos + 1
                  /\ warned' = warned \cup {txpos}
                  /\ UNCHANGED elapsed
                  /\ UNCHANGED <<txpc, sent, passResult, prevLog, rxfifo, arrived,
                                 burstArr>>
             [] p.kind = "frame" /\ sendOk ->
                  /\ txpos' = txpos + 1
                  /\ sent' = Append(sent, p.payload)
                  /\ IF link THEN Arrive(p.payload)
                     ELSE UNCHANGED <<rxfifo, arrived, burstArr>>
                  /\ UNCHANGED elapsed
                  /\ UNCHANGED <<txpc, passResult, warned, prevLog>>
             [] p.kind = "frame" /\ ~sendOk ->
                  /\ passResult' = "error"
                  /\ txpc' = "cooldown"
                  /\ prevLog' = file
                  /\ elapsed' = 0
                  /\ UNCHANGED <<txpos, sent, warned, rxfifo, arrived, burstArr>>
    /\ UNCHANGED <<boton, rssi_values, file, wi, triggers, rxpc, led, oled, shown,
                   buf, lastOutcome, unpacked, burstK, burstRecv>>
    /\ UNCHANGED <<rxErrs, rxRadio, rxFatal, listening, received>>
    /\ UNCHANGED <<txRadio, txFatal>>
    /\ UNCHANGED draws
    /\ UNCHANGED pressPasses
    /\ UNCHANGED stats

\* transmitir_archivo(): the file is exhausted, "Archivo enviado exitosamente."
\* mutant of TxPassEnd: after the last line the pass goes back to sampling
TxPassEndResample ==
    /\ txpc = "tx"
    /\ txpos > Len(file)
    /\ passResult' = "ok"
    /\ txpc' = "medir"
    /\ prevLog' = file
    /\ elapsed' = 0
    /\ UNCHANGED pressPasses
    /\ UNCHANGED <<boton, rssi_values, file, wi, txpos, sent, warned, triggers,
                   rxvars, rxfifo, arrived>>
    /\ UNCHANGED <<txRadio, txFatal>>
    /\ UNCHANGED draws
    /\ UNCHANGED stats

TxPassEnd ==
    /\ txpc = "tx"
    /\ txpos > Len(file)
    /\ passResult' = "ok"
    /\ txpc' = "cooldown"
    /\ prevLog' = file
    /\ elapsed' = 0
    /\ UNCHANGED pressPasses
    /\ UNCHANGED <<boton, rssi_values, file, wi, txpos, sent, warned, triggers,
                   rxvars, rxfifo, arrived>>
    /\ UNCHANGED <<txRadio, txFatal>>
    /\ UNCHANGED draws
    /\ UNCHANGED stats

\* mutant of TxCooldown: the pause after a pass is 0.2 s
TxCooldownShort ==
    /\ txpc = "cooldown"
    /\ txpc' = "loop"
    /\ elapsed' = elapsed + 200
    /\ UNCHANGED pressPasses
    /\ UNCHANGED <<boton, rssi_values, file, wi, txpos, sent, passResult, warned,
                   triggers, prevLog, rxvars, rxfifo, arrived>>
    /\ UNCHANGED <<txRadio, txFatal>>
    /\ UNCHANGED draws
    /\ UNCHANGED stats

\* main(): time.sleep(2) is over
TxCooldown ==
    /\ txpc = "cooldown"
    /\ txpc' = "loop"
    /\ elapsed' = IF elapsed + COOLDOWN_MS > COOLDOWN_MS THEN COOLDOWN_MS
                  ELSE elapsed + COOLDOWN_MS
    /\ UNCHANGED pressPasses
    /\ UNCHANGED <<boton, rssi_values, file, wi, txpos, sent, passResult, warned,
                   triggers, prevLog, rxvars, rxfifo, arrived>>
    /\ UNCHANGED <<txRadio, txFatal>>
    /\ UNCHANGED draws
    /\ UNCHANGED stats

(***************************************************************************)
(* Receiver, RX.py.                                                        *)
(***************************************************************************)
\* main(): setup_nrf24l01() returns and receiver_loop starts listening, or it
\* raises and main's except ends the program
RxSetup(ok) ==
    /\ rxpc = "setup"
    /\ rxpc' = IF ok THEN "poll" ELSE "exit"
    /\ rxRadio' = IF ok THEN "ready" ELSE "failed"
    /\ listening' = ok
    /\ rxFatal' = ~ok
    /\ UNCHANGED <<txvars, led, oled, shown, buf, lastOutcome, unpacked, burstK,
                   burstArr, burstRecv, rxfifo, arrived>>
    /\ UNCHANGED <<rxErrs, received>>

\* receiver_loop(): the outer "if nrf.any()"; led.on() when something is pending
RxPoll ==
    /\ rxpc = "poll"
    /\ IF rxfifo # <<>>
       THEN /\ led' = 1
            /\ rxpc' = "drain"
            /\ burstK' = Len(rxfifo)
            /\ burstArr' = 0
            /\ burstRecv' = 0
       ELSE /\ rxpc' = "sleep100"
            /\ UNCHANGED <<led, burstK, burstArr, burstRecv>>
    /\ UNCHANGED <<txvars, oled, shown, buf, lastOutcome, unpacked, rxfifo, arrived>>
    /\ UNCHANGED <<rxErrs, rxRadio, rxFatal, listening, received>>

\* mutant of RxProcess: a rejected buffer makes the loop reject the next one too
RxProcessSticky(b, oledOk) ==
    IF Len(b) = FRAME_LEN /\ lastOutcome \notin {"size", "decode_err"}
    THEN /\ unpacked' = unpacked \cup {b}
         /\ IF oledOk
            THEN /\ oled' = <<Unpack(b)[2]>>
                 /\ shown' = Append(shown, Unpack(b)[2])
                 /\ lastOutcome' = "shown"
                 /\ UNCHANGED rxErrs
            ELSE /\ lastOutcome' = "decode_err"
                 /\ rxErrs' = rxErrs + 1
                 /\ UNCHANGED <<oled, shown>>
    ELSE /\ lastOutcome' = "size"
         /\ UNCHANGED <<unpacked, oled, shown, rxErrs>>

\* mutant of RxProcess: the size check lets longer buffers through
RxProcessAtLeast(b, oledOk) ==
    IF Len(b) >= FRAME_LEN
    THEN /\ unpacked' = unpacked \cup {b}
         /\ IF oledOk
            THEN /\ oled' = <<Unpack(b)[2]>>
                 /\ shown' = Append(shown, Unpack(b)[2])
                 /\ lastOutcome' = "shown"
                 /\ UNCHANGED rxErrs
            ELSE /\ lastOutcome' = "decode_err"
                 /\ rxErrs' = rxErrs + 1
                 /\ UNCHANGED <<oled, shown>>
    ELSE /\ lastOutcome' = "size"
         /\ UNCHANGED <<unpacked, oled, shown, rxErrs>>

\* mutant of RxProcess: the display keeps the strongest value seen so far
RxProcessKeepMax(b, oledOk) ==
    IF Len(b) = FRAME_LEN
    THEN /\ unpacked' = unpacked \cup {b}
         /\ IF oledOk
            THEN /\ oled' = IF oled # <<>> /\ oled[1] > Unpack(b)[2] THEN oled
                            ELSE <<Unpack(b)[2]>>
                 /\ shown' = Append(shown, Unpack(b)[2])
                 /\ lastOutcome' = "shown"
                 /\ UNCHANGED rxErrs
            ELSE /\ lastOutcome' = "decode_err"
                 /\ rxErrs' = rxErrs + 1
                 /\ UNCHANGED <<oled, shown>>
    ELSE /\ lastOutcome' = "size"
         /\ UNCHANGED <<unpacked, oled, shown, rxErrs>>

\* receiver_loop(): what the inner loop does with the buffer b it received.
\* oledOk: mostrar_en_oled returns (FALSE: the display raises)
RxProcess(b, oledOk) ==
    IF Len(b) = FRAME_LEN
    THEN /\ unpacked' = unpacked \cup {b}
         /\ IF oledOk
            THEN /\ oled' = <<Unpack(b)[2]>>
                 /\ shown' = Append(shown, Unpack(b)[2])
                 /\ lastOutcome' = "shown"
                 /\ UNCHANGED rxErrs
            ELSE /\ lastOutcome' = "decode_err"
                 /\ rxErrs' = rxErrs + 1
                 /\ UNCHANGED <<oled, shown>>
    ELSE /\ lastOutcome' = "size"
         /\ UNCHANGED <<unpacked, oled, shown, rxErrs>>

\* mutant of RxDrain: an "if" in place of the inner "while"
RxDrainOnce(recvOk, oledOk) ==
    /\ rxpc = "drain"
    /\ IF rxfifo = <<>>
       THEN /\ rxpc' = "ledoff"
            /\ UNCHANGED rxFatal
            /\ UNCHANGED <<rxfifo, buf, lastOutcome, unpacked, oled, shown, burstRecv,
                           rxErrs, received>>
       ELSE IF ~recvOk
       THEN /\ rxpc' = "exit"
            /\ rxFatal' = TRUE
            /\ UNCHANGED <<rxfifo, buf, lastOutcome, unpacked, oled, shown, burstRecv,
                           rxErrs, received>>
       ELSE /\ buf' = Head(rxfifo)
            /\ rxfifo' = Tail(rxfifo)
            /\ burstRecv' = burstRecv + 1
            /\ received' = received + 1
            /\ RxProcess(Head(rxfifo), oledOk)
            /\ UNCHANGED rxFatal
            /\ rxpc' = "ledoff"
    /\ UNCHANGED <<txvars, led, burstK, burstArr, arrived>>
    /\ UNCHANGED <<rxRadio, listening>>

\* receiver_loop(): one turn of "while nrf.any()": recv, check, unpack, show,
\* sleep 50 ms. recvOk: nrf.recv returns (FALSE: it raises, and the exception
\* leaves receiver_loop for main's except)
RxDrain(recvOk, oledOk) ==
    /\ rxpc = "drain"
    /\ IF rxfifo = <<>>
       THEN /\ rxpc' = "ledoff"
            /\ UNCHANGED rxFatal
            /\ UNCHANGED <<rxfifo, buf, lastOutcome, unpacked, oled, shown, burstRecv,
                           rxErrs, received>>
       ELSE IF ~recvOk
       THEN /\ rxpc' = "exit"
            /\ rxFatal' = TRUE
            /\ UNCHANGED <<rxfifo, buf, lastOutcome, unpacked, oled, shown, burstRecv,
                           rxErrs, received>>
       ELSE /\ buf' = Head(rxfifo)
            /\ rxfifo' = Tail(rxfifo)
            /\ burstRecv' = burstRecv + 1
            /\ received' = received + 1
            /\ RxProcess(Head(rxfifo), oledOk)
            /\ UNCHANGED rxFatal
            /\ UNCHANGED rxpc
    /\ UNCHANGED <<txvars, led, burstK, burstArr, arrived>>
    /\ UNCHANGED <<rxRadio, listening>>

\* receiver_loop(): led.off() after the inner loop
\* mutant of RxLedOff: the receive buffer is flushed when the burst ends
RxLedOffFlush ==
    /\ rxpc = "ledoff"
    /\ led' = 0
    /\ rxpc' = "sleep100"
    /\ rxfifo' = <<>>
    /\ UNCHANGED <<txvars, oled, shown, buf, lastOutcome, unpacked, burstK,
                   burstArr, burstRecv, arrived>>
    /\ UNCHANGED <<rxErrs, rxRadio, rxFatal, listening, received>>

RxLedOff ==
    /\ rxpc = "ledoff"
    /\ led' = 0
    /\ rxpc' = "sleep100"
    /\ UNCHANGED <<txvars, oled, shown, buf, lastOutcome, unpacked, burstK,
                   burstArr, burstRecv, rxfifo, arrived>>
    /\ UNCHANGED <<rxErrs, rxRadio, rxFatal, listening, received>>

\* receiver_loop(): utime.sleep_ms(100) is over
RxIdle ==
    /\ rxpc = "sleep100"
    /\ rxpc' = "poll"
    /\ UNCHANGED <<txvars, led, oled, shown, buf, lastOutcome, unpacked, burstK,
                   burstArr, burstRecv, rxfifo, arrived>>
    /\ UNCHANGED <<rxErrs, rxRadio, rxFatal, listening, received>>

\* buffers the radio hands to the receiver in the model: two frames of the
\* transmitter and buffers of the lengths 0, 1, 7, 9 and 16
Junk(n) == SubSeq(Pack(7, -70) \o Pack(8, -80), 1, n)
SampleBufs == {Pack(0, -50), Pack(1, -55)} \cup {Junk(n) : n \in {0, 1, 7, 9, 16}}

\* some transmitter's payload reaches the receiver's radio
RxArrive(b) ==
    /\ rxpc \notin {"off", "exit"}
    /\ arrived < MaxArrivals
    /\ Arrive(b)
    /\ UNCHANGED <<txvars, rxpc, led, oled, shown, buf, lastOutcome, unpacked,
                   burstK, burstRecv>>
    /\ UNCHANGED <<rxErrs, rxRadio, rxFatal, listening, received>>

(***************************************************************************)
(* Initial states and specifications.                                      *)
(***************************************************************************)
TxStart(pc, f) ==
    /\ txpc = pc
    /\ boton = 1
    /\ rssi_values = <<>>
    /\ draws = <<>>
    /\ file = f
    /\ wi = 1
    /\ txpos = 1
    /\ sent = <<>>
    /\ passResult = IF pc = "tx" THEN "running" ELSE "none"
    /\ warned = {}
    /\ triggers = 0
    /\ prevLog = <<>>
    /\ txRadio = (IF pc = "tx" THEN "ready" ELSE "unset")
    /\ txFatal = FALSE
    /\ elapsed = 0
    /\ pressPasses = 0
    /\ stats = NoStats

RxStart(pc) ==
    /\ rxpc = pc
    /\ led = 0
    /\ oled = <<>>
    /\ shown = <<>>
    /\ buf = <<>>
    /\ lastOutcome = "none"
    /\ unpacked = {}
    /\ burstK = 0
    /\ burstArr = 0
    /\ burstRecv = 0
    /\ rxErrs = 0
    /\ rxRadio = "unset"
    /\ rxFatal = FALSE
    /\ listening = FALSE
    /\ received = 0
    /\ rxfifo = <<>>
    /\ arrived = 0

\* sequences of at most n elements of S
SeqsUpTo(S, n) == UNION {[1..k -> S] : k \in 0..n}

\* TX.py alone: main() from its start, no receiver in range
Init == TxStart("setup", <<>>) /\ RxStart("off")

Next ==
    \/ \E ok \in BOOLEAN : TxSetup(ok)
    \/ ButtonFlip
    \/ TxLoop
    \/ \E connected \in BOOLEAN, reading \in Readings : TxSample(connected, reading)
    \/ TxStats
    \/ TxOpenLog
    \/ TxWriteLog
    \/ TxStartPass
    \/ \E sendOk \in BOOLEAN : TxLine(sendOk, FALSE)
    \/ TxPassEnd
    \/ TxCooldown

Spec == Init /\ [][Next]_vars

\* the steps of the transmitter's own program other than the handling of a
\* line of the file
TxStep ==
    \/ \E ok \in BOOLEAN : TxSetup(ok)
    \/ TxLoop
    \/ \E connected \in BOOLEAN, reading \in Readings : TxSample(connected, reading)
    \/ TxStats
    \/ TxOpenLog
    \/ TxWriteLog
    \/ TxStartPass
    \/ TxPassEnd
    \/ TxCooldown

\* transmitir_archivo has a line left to handle: TxLine can be taken, since
\* its four cases cover every line and each moves txpos or txpc
TxLinePending == txpc = "tx" /\ txpos <= Len(file)

\* TX.py main() with the program always taking its next step: main() makes no
\* blocking call other than the bounded sleeps, and nrf.send returns or raises.
\* The second conjunct is weak fairness of TxLine, its enabling condition
\* written out as TxLinePending.
TxFairness ==
    /\ WF_vars(TxStep)
    /\ ([]<>(~TxLinePending) \/ []<><<\E sendOk \in BOOLEAN : TxLine(sendOk, FALSE)>>_vars)

SpecFair == Init /\ [][Next]_vars /\ TxFairness

\* RX.py alone: main() from its start, payloads arriving from the air
InitRX == TxStart("off", <<>>) /\ RxStart("setup")

NextRX ==
    \/ \E ok \in BOOLEAN : RxSetup(ok)
    \/ \E b \in SampleBufs : RxArrive(b)
    \/ RxPoll
    \/ \E recvOk \in BOOLEAN, oledOk \in BOOLEAN : RxDrain(recvOk, oledOk)
    \/ RxLedOff
    \/ RxIdle

SpecRX == InitRX /\ [][NextRX]_vars

\* the steps of the receiver's own program (everything but the arrival of a
\* payload): receiver_loop makes no blocking call other than the bounded
\* sleeps, and nrf.recv returns or raises
RxStep ==
    \/ \E ok \in BOOLEAN : RxSetup(ok)
    \/ RxPoll
    \/ \E recvOk \in BOOLEAN, oledOk \in BOOLEAN : RxDrain(recvOk, oledOk)
    \/ RxLedOff
    \/ RxIdle

\* RX.py main() with the program always taking its next step
SpecRXFair == InitRX /\ [][NextRX]_vars /\ WF_vars(RxStep)

\* either endpoint from its start: the device runs TX.py or it runs RX.py
InitBoot == Init \/ InitRX

NextBoot == Next \/ NextRX

SpecBoot == InitBoot /\ [][NextBoot]_vars

\* transmitir_archivo(nrf, file_path) on any file
SampleLines ==
    { <<"0", ",", "-", "5", "0", "\n">>,
      <<"1", ",", "-", "5", "5", "\n">>,
      <<"a", "b", "c", ",", "5", "\n">>,
      <<"7", "\n">>,
      <<"1", ",", "2", ",", "3", "\n">>,
      <<"\n">>,
      <<"4", ",", "\n">>,
      <<" ", "2", ",", " ", "+", "3", " ", "\n">>,
      <<"6", ",", "-", "\n">> }

InitFile ==
    /\ \E f \in SeqsUpTo(SampleLines, MaxLines) : TxStart("tx", f)
    /\ RxStart("off")

NextFile ==
    \/ \E sendOk \in BOOLEAN : TxLine(sendOk, FALSE)
    \/ TxPassEnd

SpecFile == InitFile /\ [][NextFile]_vars

\* one pass of transmitir_archivo over a file of well-formed lines, with the
\* receiver running and every accepted payload reaching its radio
LinkLines == {FormatLine(i, v) : i \in 0..1, v \in Readings \cup {SENTINEL}}

InitLink ==
    /\ \E f \in SeqsUpTo(LinkLines, MaxLinkLines) : TxStart("tx", f)
    /\ RxStart("setup")

NextLink ==
    \/ \E sendOk \in BOOLEAN : TxLine(sendOk, TRUE)
    \/ TxPassEnd
    \/ RxSetup(TRUE)
    \/ RxPoll
    \/ RxDrain(TRUE, TRUE)
    \/ RxLedOff
    \/ RxIdle

SpecLink == InitLink /\ [][NextLink]_vars

\* one record through the whole codec path: written to the file, parsed,
\* packed, sent, received and unpacked
CodecValues ==
    {-2147483647, -65536, -256, -100, -1, 0, 1, 127, 128, 255, 256, 65535,
     2147483647}

InitCodec ==
    /\ \E i \in CodecValues, r \in CodecValues : TxStart("tx", <<FormatLine(i, r)>>)
    /\ RxStart("setup")

SpecCodec == InitCodec /\ [][NextLink]_vars

(***************************************************************************)
(* Properties.                                                             *)
(***************************************************************************)
IsPrefix(a, b) == Len(a) <= Len(b) /\ SubSeq(b, 1, Len(a)) = a

\* the frames of the running batch, one per reading, indexed from 0
BatchFrames == [k \in 1..Len(rssi_values) |-> Pack(k - 1, rssi_values[k])]

\* a pass has ended without a failed send
PassDoneOk == txpc = "cooldown" /\ passResult = "ok"

BatchLogged ==
    /\ Len(rssi_values) = NumSamples
    /\ Len(file) >= NumSamples
    /\ \A k \in 1..NumSamples :
          file[Len(file) - NumSamples + k] = FormatLine(k - 1, rssi_values[k])

\* a step in which nrf.send is called (it returns or it raises)
SendAttempt ==
    \/ Len(sent') > Len(sent)
    \/ passResult = "running" /\ passResult' = "error"

\* C3: no frame is handed to the radio before every record of the trigger's
\* batch is in the file.
C3_LogThenSend == [][SendAttempt => BatchLogged]_vars

C3_Witness == txpc = "tx" /\ triggers = 2 /\ Len(sent) = 1

\* the record a line written by medir_rssi stands for
LinkRecord(line) ==
    CHOOSE r \in (0..1) \X (Readings \cup {SENTINEL}) : FormatLine(r[1], r[2]) = line

ExpectedFrames(f) ==
    [k \in 1..Len(f) |-> Pack(LinkRecord(f[k])[1], LinkRecord(f[k])[2])]

ExpectedMetrics(f) == [k \in 1..Len(f) |-> LinkRecord(f[k])[2]]

\* C4: a pass over a file of well-formed lines sends encode(line_1),
\* encode(line_2), ... in file order, nothing dropped, duplicated or reordered,
\* and the receiver, getting the frames in that order, draws their metrics in
\* that order.
C4_OrderPreserved ==
    /\ IsPrefix(sent, ExpectedFrames(file))
    /\ passResult = "ok" => sent = ExpectedFrames(file)
    /\ shown = SubSeq(ExpectedMetrics(file), 1, arrived - Len(rxfifo))

C4_Witness ==
    /\ passResult = "ok"
    /\ file = <<FormatLine(0, -50), FormatLine(1, -55)>>
    /\ sent = <<Pack(0, -50), Pack(1, -55)>>
    /\ shown = <<-50, -55>>

\* C5: a burst that starts with k payloads pending and sees no further arrival
\* receives exactly k payloads before the idle wait; the LED is on from the
\* check that starts the burst until after the k-th payload is consumed, and
\* off whenever the receiver polls or waits.
C5_DrainToExhaustion ==
    /\ rxpc \in {"drain", "ledoff"} => led = 1
    /\ rxpc \in {"poll", "sleep100"} => led = 0
    /\ rxpc = "drain" /\ burstArr = 0 => burstRecv + Len(rxfifo) = burstK
    /\ rxpc \in {"ledoff", "sleep100"} /\ burstArr = 0 => burstRecv = burstK
    /\ led = 0 /\ burstArr = 0 => burstRecv = burstK

C5_Witness ==
    rxpc = "sleep100" /\ led = 0 /\ burstK = 3 /\ burstRecv = 3 /\ burstArr = 0

\* the record each sample line stands for, <<>> for a malformed line
Denotes(line) ==
    CASE line = <<"0", ",", "-", "5", "0", "\n">> -> <<0, -50>>
      [] line = <<"1", ",", "-", "5", "5", "\n">> -> <<1, -55>>
      [] line = <<" ", "2", ",", " ", "+", "3", " ", "\n">> -> <<2, 3>>
      [] OTHER -> <<>>

\* the encodings of the well-formed lines of f, in order
RECURSIVE WellFormedFrames(_)
WellFormedFrames(f) ==
    IF f = <<>> THEN <<>>
    ELSE (IF Denotes(Head(f)) = <<>> THEN <<>>
          ELSE <<Pack(Denotes(Head(f))[1], Denotes(Head(f))[2])>>)
         \o WellFormedFrames(Tail(f))

\* C6: malformed lines are skipped and never stop the pass: the frames sent
\* are exactly the encodings of the well-formed lines read so far, in order; a
\* pass that ends normally has read every line, and a pass that is aborted
\* stopped at a well-formed line (whose send failed).
C6_MalformedSkipped ==
    /\ sent = WellFormedFrames(SubSeq(file, 1, txpos - 1))
    /\ passResult = "ok" => txpos = Len(file) + 1
    /\ passResult = "error" => txpos <= Len(file) /\ Denotes(file[txpos]) # <<>>

C6_Witness ==
    /\ PassDoneOk
    /\ file = << <<"0", ",", "-", "5", "0", "\n">>,
                 <<"a", "b", "c", ",", "5", "\n">>,
                 <<"1", ",", "-", "5", "5", "\n">> >>
    /\ sent = <<Pack(0, -50), Pack(1, -55)>>
    /\ warned = {2}

TxLoopPcs == {"loop", "medir", "open", "write", "tx", "cooldown"}
RxLoopPcs == {"poll", "drain", "ledoff", "sleep100"}

\* C7: a failure raised by nrf.send or nrf.recv never takes the controller out
\* of its main loop.
C7_LoopSurvivesRadioFailure ==
    [][/\ txpc \in TxLoopPcs => txpc' \in TxLoopPcs
       /\ rxpc \in RxLoopPcs => rxpc' \in RxLoopPcs]_vars

\* sends attempted in the pass: the accepted ones and the one that raised
Attempts == Len(sent) + (IF passResult = "error" THEN 1 ELSE 0)

WellFormedCount(f) == Len(WellFormedFrames(f))

\* C8 as stated: when the pass is over a send has been attempted for every
\* well-formed record of the file, also when a send failed part-way.
C8_NoPartialAbort == txpc = "cooldown" => Attempts = WellFormedCount(file)

\* C8 amended: a pass in which no send fails attempts a send for every
\* well-formed record; the first failed send ends the pass, so that a send has
\* been attempted for the well-formed records up to and including the one
\* whose send failed, and for none after it.
C8_AbortAtFirstFailure ==
    txpc = "cooldown" =>
        IF passResult = "ok" THEN Attempts = WellFormedCount(file)
        ELSE /\ passResult = "error"
             /\ txpos <= Len(file)
             /\ Denotes(file[txpos]) # <<>>
             /\ Attempts = WellFormedCount(SubSeq(file, 1, txpos))

C8_Witness ==
    /\ txpc = "cooldown"
    /\ passResult = "error"
    /\ Len(file) = 3
    /\ WellFormedCount(file) = 3
    /\ txpos = 2
    /\ Attempts = 2

\* a step in which nrf.recv returns the head of the queue
RecvStep == rxfifo # <<>> /\ rxfifo' = Tail(rxfifo)

\* the record an 8-byte frame of the transmitter carries
FrameRecord(b) == CHOOSE r \in (0..1) \X Readings : Pack(r[1], r[2]) = b

\* C9: rejecting a frame leaves the receiver in its drain loop, and the next
\* 8-byte frame is decoded to its own record and its metric is drawn (when the
\* display does not raise on it).
C9_RejectedFrameHarmless ==
    [][RecvStep =>
        /\ lastOutcome' \in {"size", "decode_err"} => rxpc' = "drain"
        /\ (/\ lastOutcome \in {"size", "decode_err"}
            /\ Len(Head(rxfifo)) = FRAME_LEN
            /\ lastOutcome' # "decode_err")
           => /\ lastOutcome' = "shown"
              /\ buf' = Head(rxfifo)
              /\ oled' = <<FrameRecord(Head(rxfifo))[2]>>
              /\ shown' = Append(shown, FrameRecord(Head(rxfifo))[2])]_vars

C9_Witness ==
    /\ lastOutcome = "shown"
    /\ arrived - Len(rxfifo) = 2
    /\ burstRecv = 2
    /\ shown = <<-55>>
    /\ unpacked = {buf}

\* C10: a buffer whose length is not 8 is rejected before its bytes are
\* interpreted: unpack is never invoked on it, the display is not called and
\* the value on the display stays.
C10_SizeGuard ==
    /\ [](\A b \in unpacked : Len(b) = FRAME_LEN)
    /\ [][RecvStep /\ Len(Head(rxfifo)) # FRAME_LEN =>
            /\ lastOutcome' = "size"
            /\ unpacked' = unpacked
            /\ oled' = oled
            /\ shown' = shown]_vars

C10_Witness ==
    lastOutcome = "size" /\ Len(buf) = 16 /\ oled = <<-50>> /\ shown = <<-50>>


\* lines of the file the pass has read and skipped
SkippedLines == {k \in 1..(txpos - 1) : Denotes(file[k]) = <<>>}

\* buffers the receiver has received and not drawn
RejectedFrames == (arrived - Len(rxfifo)) - Len(shown)

\* C11: every line the transmitter skips and every frame the receiver rejects
\* produces at least one diagnostic.
C11_NoSilentSkip ==
    /\ SkippedLines \subseteq warned
    /\ rxErrs >= RejectedFrames


\* C12: a failed radio setup is fatal on both endpoints: the transmitter never
\* samples, writes the log or sends, the receiver never listens or receives,
\* each prints a diagnostic, and neither enters its main loop.
C12_ConfigFailureFatal ==
    /\ txRadio = "failed" =>
          /\ txpc = "exit"
          /\ txFatal
          /\ triggers = 0 /\ rssi_values = <<>> /\ file = <<>>
          /\ sent = <<>> /\ passResult = "none"
    /\ rxRadio = "failed" =>
          /\ rxpc = "exit"
          /\ rxFatal
          /\ ~listening
          /\ burstRecv = 0 /\ buf = <<>> /\ lastOutcome = "none" /\ led = 0

C12_Witness ==
    rxRadio = "failed" /\ rxpc = "exit" /\ rxFatal /\ rxfifo # <<>>


\* C13: the display is last-write-wins: it is blank until the first frame is
\* decoded and drawn, every frame decoded without an error replaces the value
\* by that frame's metric whatever its sequence id and whatever was shown
\* before, and nothing else changes the display.
C13_LastWriteWins ==
    /\ [](shown = <<>> => oled = <<>>)
    /\ [][IF RecvStep /\ Len(Head(rxfifo)) = FRAME_LEN /\ rxErrs' = rxErrs
          THEN oled' = <<FrameRecord(Head(rxfifo))[2]>>
          ELSE oled' = oled]_vars

C13_Witness ==
    shown = <<-55, -50>> /\ oled = <<-50>> /\ buf = Pack(0, -50) /\ rxErrs = 0


\* the metric draw k must give: the reading, or -100 when there was none
DrawMetric(k) == IF draws[k] = <<>> THEN -100 ELSE draws[k][1]

\* C14: a sampling step of n draws produces exactly n records, numbered
\* 0..n-1 in draw order; the metric of a draw is the reading of the source
\* when it is available and -100 when it is not.
C14_SamplerIndexing ==
    /\ Len(rssi_values) = Len(draws)
    /\ Len(draws) <= NumSamples
    /\ \A k \in 1..Len(draws) : rssi_values[k] = DrawMetric(k)
    /\ txpc \in {"tx", "cooldown"} =>
          /\ Len(draws) = NumSamples
          /\ Len(file) = NumSamples
          /\ \A k \in 1..NumSamples :
                ParseLine(file[k]) =
                    [kind |-> "frame", payload |-> Pack(k - 1, DrawMetric(k))]

C14_Witness ==
    /\ txpc = "tx"
    /\ triggers = 2
    /\ Len(draws) = NumSamples
    /\ \A k \in 1..Len(draws) : draws[k] = <<>> /\ rssi_values[k] = -100
    /\ Len(file) = NumSamples


\* the record the one line of the file stands for
CodecRecord(line) ==
    CHOOSE r \in CodecValues \X CodecValues : FormatLine(r[1], r[2]) = line

\* the least signed 32-bit integer
MinInt32 == -2147483647 - 1

\* C15: for every record with both fields in the signed 32-bit range the
\* transmitter's encoding is exactly 8 bytes and the receiver's decoding of
\* those bytes gives the same sequence id and the same metric, in that order.
C15_RoundTrip ==
    /\ \A k \in 1..Len(sent) :
          /\ Len(sent[k]) = 8
          /\ \A j \in 1..8 : sent[k][j] \in 0..255
    /\ lastOutcome = "shown" =>
          /\ buf = sent[1]
          /\ Unpack(buf) = CodecRecord(file[1])
          /\ oled = <<CodecRecord(file[1])[2]>>
    /\ \A i \in CodecValues \cup {MinInt32}, r \in CodecValues \cup {MinInt32} :
          Len(Pack(i, r)) = 8 /\ Unpack(Pack(i, r)) = <<i, r>>

C15_Witness ==
    /\ lastOutcome = "shown"
    /\ file = <<FormatLine(2147483647, -2147483647)>>
    /\ Unpack(buf) = <<2147483647, -2147483647>>
    /\ buf = <<255, 255, 255, 127, 1, 0, 0, 128>>


\* C16: after every pass at least 2 seconds go by before main() reads the
\* button again, so the next sampling step starts no sooner than 2 s after the
\* pass ended; a sampling step starts only on the level the pin has when it is
\* read, so that a press made and released meanwhile is not kept.
C16_CoolDown ==
    /\ [](/\ txpc \in {"loop", "medir", "open", "write"}
          /\ passResult \in {"ok", "error"}
          => elapsed >= 2000)
    /\ [][triggers' # triggers => txpc = "loop" /\ boton = 0]_vars

C16_Witness ==
    txpc = "medir" /\ triggers = 2 /\ passResult = "ok" /\ elapsed = 2000


\* sum of the squares of xs
RECURSIVE SumSq(_)
SumSq(xs) == IF xs = <<>> THEN 0 ELSE xs[1] * xs[1] + SumSq(Tail(xs))

\* C17: the statistics printed for a batch of n readings are the mean sum(x)/n
\* and the population variance (sum of squared deviations over n, which is
\* (n*sum(x^2) - sum(x)^2) / n^2), whose square root is the printed deviation;
\* for -40,-42,-44,-46 they are -43 and 5.  The log lines and the frames hold
\* the index and the raw reading only.
C17_Statistics ==
    /\ avg_rssi(<<-40, -42, -44, -46>>) = <<-43, 1>>
    /\ var_rssi(<<-40, -42, -44, -46>>) = <<5, 1>>
    /\ txpc \in {"open", "write", "tx", "cooldown"} =>
          LET n == Len(rssi_values)
              S == sum(rssi_values)
          IN  /\ n = NumSamples
              /\ stats.n = n
              /\ stats.avg = RNorm(S, n)
              /\ stats.var = RNorm(n * SumSq(rssi_values) - S * S, n * n)
    /\ txpc \in {"tx", "cooldown"} =>
          /\ \A k \in 1..Len(file) : file[k] = FormatLine(k - 1, rssi_values[k])
          /\ \A k \in 1..Len(sent) : sent[k] = Pack(k - 1, rssi_values[k])

C17_Witness ==
    /\ passResult = "ok"
    /\ Len(sent) = NumSamples
    /\ stats.n = NumSamples
    /\ stats.var[1] > 0


\* C18: one continuous press of the button, however long it is held, starts
\* at most one sampling-and-transmission pass.
C18_OnePassPerPress ==
    pressPasses <= 1


\* the phase of the transmitter at a program position
Phase(pc) ==
    CASE pc = "setup" -> "Boot"
      [] pc \in {"exit", "off"} -> "Halted"
      [] pc \in {"loop", "cooldown"} -> "Idle"
      [] pc \in {"medir", "open", "write"} -> "Sampling"
      [] pc = "tx" -> "Transmitting"

\* C19: the transmitter's phases change only Idle -> Sampling (the button
\* reading pressed at the loop's test), Sampling -> Transmitting (the batch
\* computed and wholly written to the log) and Transmitting -> Idle; and every
\* triggered pass eventually ends, on success or on error, with main() back at
\* the button test.
C19_PhaseOrder ==
    /\ [][Phase(txpc') # Phase(txpc) =>
            \/ Phase(txpc) = "Boot" /\ Phase(txpc') \in {"Idle", "Halted"}
            \/ /\ txpc = "loop" /\ txpc' = "medir"
               /\ boton = 0
            \/ /\ txpc = "write" /\ txpc' = "tx"
               /\ stats.n = NumSamples
               /\ BatchLogged
            \/ Phase(txpc) = "Transmitting" /\ Phase(txpc') = "Idle"]_vars
    /\ [](Phase(txpc) = "Idle" /\ triggers > 0 => passResult \in {"ok", "error"})
    /\ Phase(txpc) \in {"Sampling", "Transmitting"} ~> txpc = "loop"

C19_Witness ==
    /\ txpc = "loop"
    /\ triggers = MaxTriggers
    /\ passResult = "error"
    /\ Len(sent) = 1


\* the receiver waits in time.sleep_ms(100) with the LED off and nothing pending
RxIdleWait == rxpc = "sleep100" /\ led = 0 /\ rxfifo = <<>>

\* C20: no payload leaves the receive buffer but through nrf.recv, and, the
\* arrivals being finitely many, unless nrf.recv or the setup raised the
\* receiver is again and again in its idle wait with the LED off and nothing
\* pending: every payload that arrived has then been received, also one that
\* arrived during a burst or between the burst's last nrf.any() and led.off().
C20_ReceiverLiveness ==
    /\ [](received + Len(rxfifo) = arrived)
    /\ [][received' >= received]_vars
    /\ []<>(RxIdleWait \/ rxFatal)

C20_Witness ==
    /\ RxIdleWait
    /\ received = MaxArrivals
    /\ burstArr >= 1
    /\ burstK + burstArr = burstRecv

====
